---------------------------- MODULE Spec2Model ----------------------------
(***************************************************************************)
(* Model of the portfolio ledger of the trading platform                   *)
(* (src/src/portfolio/manager.py, class PortfolioManager).                 *)
(*                                                                         *)
(* Money amounts (cash, avg_price, pnl, equity) are Python floats in the   *)
(* source; they are modelled as exact rationals [n, d] in lowest terms      *)
(* with d > 0, so that the divisions of execute_trade are computed and not *)
(* rounded.  Quantities, prices and commissions are drawn from integers.   *)
(***************************************************************************)
EXTENDS Integers, Naturals, Sequences, FiniteSets, TLC

VARIABLES
    \* the PortfolioManager object
    cash, positions, trades, closed_trades, equity_curve,
    \* the last call made on the ledger: the operation, its fill, its result
    \* and the ledger as it was when the call was made
    call,
    \* the fills execute_trade has accepted, in the order of acceptance
    accepted,
    \* the BacktestingEngine object: its data, its strategy (with the fields
    \* of the Strategy object) and the position of run_backtest
    data, strategy, pc,
    \* the last step run_backtest has taken
    hist,
    \* backtest runs that proceed side by side, each an engine of its own
    engines,
    \* the PerformanceCalculator object and the last statistic asked of it
    calc,
    \* the PortfolioManager object of portfolio_manager.py, the module at the
    \* root of the source tree, given the same fills as the ledger
    root_manager

ledgervars == <<cash, positions, trades, closed_trades, equity_curve, call, accepted>>
othervars == <<engines, calc, root_manager>>
enginevars == <<data, strategy, pc, hist, engines, calc, root_manager>>
vars == <<cash, positions, trades, closed_trades, equity_curve, call, accepted,
          data, strategy, pc, hist, engines, calc, root_manager>>

---------------------------------------------------------------------------
(* Bounds of the model and the inputs drawn by the environment.            *)

\* accepted fills per behaviour (length of the trade log)
MaxTrades == 3
\* update_portfolio calls per behaviour (length of the equity curve)
MaxBars == 1
\* fill quantities are 1..MaxLots lots of LotSize shares
MaxLots == 3
LotSize == 50
\* cash the ledger is constructed with
InitialCash == 5000

\* bars of a loaded price table
MaxDataBars == 2
\* runs of run_backtest on one engine
MaxRuns == 2
\* fills a strategy's on_bar gets accepted on one engine
MaxOrders == 2
\* lots of one order of a strategy
MaxOrderLots == 2
\* points of an equity curve given to a PerformanceCalculator
MaxPoints == 3
\* closed trades given to a PerformanceCalculator
MaxClosed == 3

Symbols == {"AAPL"}
Quantities == {LotSize * k : k \in 1..MaxLots}
\* quantities a strategy orders
OrderQuantities == {LotSize * k : k \in 1..MaxOrderLots}
Prices == {10, 40, 50}
Commissions == {0, 10}
Sides == {"buy", "sell"}

---------------------------------------------------------------------------
(* Exact rational arithmetic standing for the float arithmetic.            *)

Abs(x) == IF x < 0 THEN -x ELSE x

RECURSIVE GCD(_, _)
GCD(a, b) == IF b = 0 THEN a ELSE GCD(b, a % b)

\* the rational n/d (d # 0) in lowest terms with a positive denominator
Rat(n, d) ==
    LET g == GCD(Abs(n), Abs(d))
        s == IF d < 0 THEN -1 ELSE 1
    IN  [n |-> (s * n) \div g, d |-> (s * d) \div g]

RInt(i) == [n |-> i, d |-> 1]
Zero == RInt(0)
RAdd(x, y) == Rat(x.n * y.d + y.n * x.d, x.d * y.d)
RSub(x, y) == Rat(x.n * y.d - y.n * x.d, x.d * y.d)
RMul(x, y) == Rat(x.n * y.n, x.d * y.d)
RDiv(x, y) == Rat(x.n * y.d, x.d * y.n)
RLt(x, y) == x.n * y.d < y.n * x.d
RLe(x, y) == x.n * y.d <= y.n * x.d

---------------------------------------------------------------------------
(* PortfolioManager                                                        *)

Position(q, a) == [quantity |-> q, avg_price |-> a]

\* the fields of a PortfolioManager object as one record
Ledger == [cash |-> cash, positions |-> positions, trades |-> trades,
           closed_trades |-> closed_trades, equity_curve |-> equity_curve]

\* "new_total_value / new_total_quantity if new_total_quantity > 0 else 0.0"
AvgOrZero(new_total_value, new_total_quantity) ==
    IF new_total_quantity > 0
    THEN RDiv(new_total_value, RInt(new_total_quantity))
    ELSE Zero

\* "if symbol not in self.positions: self.positions[symbol] = {0.0, 0.0}"
EnsurePosition(pos, symbol) ==
    IF symbol \in DOMAIN pos THEN pos
    ELSE pos @@ (symbol :> Position(0, Zero))

\* "del self.positions[symbol]"
DelPosition(pos, symbol) == [s \in DOMAIN pos \ {symbol} |-> pos[s]]


\* BuyLongOrFlat with the basis set to the last fill price instead of the
\* quantity-weighted average
BuyLongOrFlat_LastPrice(L, trade) ==
    [L EXCEPT !.positions[trade.symbol] =
        Position(L.positions[trade.symbol].quantity + trade.quantity,
                 RInt(trade.price))]

\* buy, "if current_quantity >= 0": merge into the long (or open it) at the
\* quantity-weighted average price.  L.cash is already debited by the cost.
BuyLongOrFlat(L, trade) ==
    LET symbol == trade.symbol
        current_quantity == L.positions[symbol].quantity
        current_avg_price == L.positions[symbol].avg_price
        new_total_value == RAdd(RMul(RInt(current_quantity), current_avg_price),
                                RInt(trade.quantity * trade.price))
        new_total_quantity == current_quantity + trade.quantity
    IN  [L EXCEPT !.positions[symbol] =
            Position(new_total_quantity,
                     AvgOrZero(new_total_value, new_total_quantity))]

\* BuyCoverShort with the PnL taken on the fill quantity instead of the
\* covered quantity
BuyCoverShort_PnlOnFillQuantity(L, trade) ==
    LET symbol == trade.symbol
        current_quantity == L.positions[symbol].quantity
        current_avg_price == L.positions[symbol].avg_price
        pnl_from_cover == RMul(RSub(current_avg_price, RInt(trade.price)),
                               RInt(trade.quantity))
    IN  [L EXCEPT !.cash = RAdd(L.cash, pnl_from_cover),
                  !.positions[symbol] =
                      Position(trade.quantity - Abs(current_quantity),
                               RInt(trade.price))]

\* buy on a short, "if abs(current_quantity) <= quantity": cover the whole
\* short, credit its PnL, the remainder becomes a long at the fill price.
BuyCoverShort(L, trade) ==
    LET symbol == trade.symbol
        current_quantity == L.positions[symbol].quantity
        current_avg_price == L.positions[symbol].avg_price
        covered_quantity == Abs(current_quantity)
        pnl_from_cover == RMul(RSub(current_avg_price, RInt(trade.price)),
                               RInt(covered_quantity))
        remaining_buy_quantity == trade.quantity - covered_quantity
    IN  [L EXCEPT !.cash = RAdd(L.cash, pnl_from_cover),
                  !.positions[symbol] =
                      Position(remaining_buy_quantity, RInt(trade.price))]

\* buy on a short, else branch: "self.positions[symbol]['quantity'] += quantity"
BuyPartialCover(L, trade) ==
    [L EXCEPT !.positions[trade.symbol].quantity = @ + trade.quantity]

\* SellCloseLong with the new short left at the closed long's average price
SellCloseLong_KeepsBasis(L, trade) ==
    LET symbol == trade.symbol
        current_quantity == L.positions[symbol].quantity
        current_avg_price == L.positions[symbol].avg_price
        pnl_from_long_close == RMul(RSub(RInt(trade.price), current_avg_price),
                                    RInt(current_quantity))
        new_cash == RAdd(L.cash, RSub(pnl_from_long_close, RInt(trade.commission)))
        new_quantity == -(trade.quantity - current_quantity)
    IN  IF new_quantity = 0
        THEN [L EXCEPT !.cash = new_cash,
                       !.closed_trades = Append(@, [symbol |-> symbol,
                                                    pnl |-> pnl_from_long_close,
                                                    timestamp |-> trade.timestamp]),
                       !.positions = DelPosition(@, symbol)]
        ELSE [L EXCEPT !.cash = new_cash,
                       !.positions[symbol].quantity = new_quantity]

\* sell on a long, "if current_quantity <= quantity": close the long; an exact
\* close records a closed trade and deletes the position, a larger sell
\* leaves a short of the remainder at the fill price.
SellCloseLong(L, trade) ==
    LET symbol == trade.symbol
        current_quantity == L.positions[symbol].quantity
        current_avg_price == L.positions[symbol].avg_price
        pnl_from_long_close == RMul(RSub(RInt(trade.price), current_avg_price),
                                    RInt(current_quantity))
        new_cash == RAdd(L.cash, RSub(pnl_from_long_close, RInt(trade.commission)))
        new_quantity == -(trade.quantity - current_quantity)
    IN  IF new_quantity = 0
        THEN [L EXCEPT !.cash = new_cash,
                       !.closed_trades = Append(@, [symbol |-> symbol,
                                                    pnl |-> pnl_from_long_close,
                                                    timestamp |-> trade.timestamp]),
                       !.positions = DelPosition(@, symbol)]
        ELSE [L EXCEPT !.cash = new_cash,
                       !.positions[symbol] =
                           Position(new_quantity, RInt(trade.price))]

\* sell on a long, else branch ("Reduce long position")
SellReduceLong(L, trade) ==
    LET symbol == trade.symbol
        current_quantity == L.positions[symbol].quantity
        current_avg_price == L.positions[symbol].avg_price
        new_total_value == RSub(RMul(RInt(current_quantity), current_avg_price),
                                RInt(trade.quantity * trade.price))
        new_total_quantity == current_quantity - trade.quantity
    IN  [L EXCEPT !.cash = RAdd(@, RInt(trade.quantity * trade.price - trade.commission)),
                  !.positions[symbol] =
                      Position(new_total_quantity,
                               AvgOrZero(new_total_value, new_total_quantity))]

\* sell with current_quantity <= 0: "Create or increase short position"
SellShort(L, trade) ==
    LET symbol == trade.symbol
        current_quantity == L.positions[symbol].quantity
        current_avg_price == L.positions[symbol].avg_price
        new_total_value == RAdd(RMul(RInt(Abs(current_quantity)), current_avg_price),
                                RInt(trade.quantity * trade.price))
        new_total_quantity == Abs(current_quantity) + trade.quantity
    IN  [L EXCEPT !.cash = RAdd(@, RInt(trade.quantity * trade.price - trade.commission)),
                  !.positions[symbol] =
                      Position(-new_total_quantity,
                               AvgOrZero(new_total_value, new_total_quantity))]

\* "if symbol in self.positions and self.positions[symbol]['quantity'] == 0:
\*      del self.positions[symbol]"
RemoveIfZero(pos, symbol) ==
    IF symbol \in DOMAIN pos /\ pos[symbol].quantity = 0
    THEN DelPosition(pos, symbol)
    ELSE pos

\* the branch of execute_trade an accepted fill takes; L has the symbol's
\* position present and, for a buy, the cost already debited
ApplyFill(L, trade) ==
    LET current_quantity == L.positions[trade.symbol].quantity
    IN  IF trade.type = "buy"
        THEN IF current_quantity >= 0 THEN BuyLongOrFlat(L, trade)
             ELSE IF Abs(current_quantity) <= trade.quantity
                  THEN BuyCoverShort(L, trade)
                  ELSE BuyPartialCover(L, trade)
        ELSE IF current_quantity > 0
             THEN IF current_quantity <= trade.quantity
                  THEN SellCloseLong(L, trade)
                  ELSE SellReduceLong(L, trade)
             ELSE SellShort(L, trade)

\* execute_trade with the fill logged before the cash check, so that a
\* rejected buy is in the trade log too
execute_trade_LogsRejected(L, trade) ==
    LET L0 == [L EXCEPT !.positions = EnsurePosition(@, trade.symbol)]
        cost == RInt(trade.quantity * trade.price + trade.commission)
    IN  IF trade.type = "buy" /\ RLt(L0.cash, cost)
        THEN [ret |-> FALSE, ledger |-> [L0 EXCEPT !.trades = Append(@, trade)]]
        ELSE LET L1 == IF trade.type = "buy"
                       THEN [L0 EXCEPT !.cash = RSub(@, cost)]
                       ELSE L0
                 L2 == ApplyFill(L1, trade)
             IN  [ret |-> TRUE,
                  ledger |-> [L2 EXCEPT
                      !.positions = RemoveIfZero(@, trade.symbol),
                      !.trades = Append(@, trade)]]

\* PortfolioManager.execute_trade: the value returned and the ledger after
execute_trade(L, trade) ==
    LET L0 == [L EXCEPT !.positions = EnsurePosition(@, trade.symbol)]
        cost == RInt(trade.quantity * trade.price + trade.commission)
    IN  IF trade.type = "buy" /\ RLt(L0.cash, cost)
        THEN [ret |-> FALSE, ledger |-> L0]
        ELSE LET L1 == IF trade.type = "buy"
                       THEN [L0 EXCEPT !.cash = RSub(@, cost)]
                       ELSE L0
                 L2 == ApplyFill(L1, trade)
             IN  [ret |-> TRUE,
                  ledger |-> [L2 EXCEPT
                      !.positions = RemoveIfZero(@, trade.symbol),
                      !.trades = Append(@, trade)]]

\* portfolio_manager.py, PortfolioManager.__init__; ret is the value its
\* last execute_trade returned
NewRootManager == [cash |-> RInt(InitialCash), positions |-> <<>>,
                   equity_curve |-> <<>>, trades |-> <<>>, ret |-> TRUE]

\* portfolio_manager.py, PortfolioManager.execute_trade: a buy needs the
\* cash, a sell the quantity held; the manager after the call
root_execute_trade(M, trade) ==
    LET cost == RInt(trade.quantity * trade.price + trade.commission)
        held == IF trade.symbol \in DOMAIN M.positions
                THEN M.positions[trade.symbol]
                ELSE Position(0, Zero)
        new_total_cost == RAdd(RMul(RInt(held.quantity), held.avg_price),
                               RInt(trade.quantity * trade.price))
        new_quantity == held.quantity + trade.quantity
        left == held.quantity - trade.quantity
    IN  IF trade.type = "buy"
        THEN IF RLe(cost, M.cash)
             THEN [M EXCEPT
                      !.cash = RSub(@, cost),
                      !.positions =
                          [s \in DOMAIN @ \cup {trade.symbol} |->
                              IF s = trade.symbol
                              THEN Position(new_quantity,
                                            IF new_quantity > 0
                                            THEN RDiv(new_total_cost,
                                                      RInt(new_quantity))
                                            ELSE Zero)
                              ELSE @[s]],
                      !.trades = Append(@, trade),
                      !.ret = TRUE]
             ELSE [M EXCEPT !.ret = FALSE]
        ELSE IF trade.type = "sell"
        THEN IF trade.symbol \in DOMAIN M.positions
                    /\ held.quantity >= trade.quantity
             THEN [M EXCEPT
                      !.cash = RAdd(@, RInt(trade.quantity * trade.price
                                               - trade.commission)),
                      !.positions =
                          IF left = 0 THEN DelPosition(@, trade.symbol)
                          ELSE [@ EXCEPT ![trade.symbol].quantity = left],
                      !.trades = Append(@, trade),
                      !.ret = TRUE]
             ELSE [M EXCEPT !.ret = FALSE]
        ELSE [M EXCEPT !.ret = FALSE]

\* current_price.get(symbol, 0)
PriceOf(current_price, symbol) ==
    IF symbol \in DOMAIN current_price THEN current_price[symbol] ELSE 0

\* cash + sum over the positions of quantity * current price
RECURSIVE SumPositions(_, _, _)
SumPositions(pos, current_price, syms) ==
    IF syms = {} THEN 0
    ELSE LET s == CHOOSE x \in syms : TRUE
         IN  pos[s].quantity * PriceOf(current_price, s)
             + SumPositions(pos, current_price, syms \ {s})

Equity_GrossExposure(c, pos, current_price) ==
    RAdd(c, RInt(Abs(SumPositions(pos, current_price, DOMAIN pos))))
Equity(c, pos, current_price) ==
    RAdd(c, RInt(SumPositions(pos, current_price, DOMAIN pos)))

\* PortfolioManager.update_portfolio
update_portfolio_SettlesCash(L, current_price, timestamp) ==
    [L EXCEPT !.cash = Equity(L.cash, L.positions, current_price),
              !.equity_curve =
        Append(@, [timestamp |-> timestamp,
                   equity |-> Equity(L.cash, L.positions, current_price)])]
update_portfolio(L, current_price, timestamp) ==
    [L EXCEPT !.equity_curve =
        Append(@, [timestamp |-> timestamp,
                   equity |-> Equity(L.cash, L.positions, current_price)])]

---------------------------------------------------------------------------
(* The ledger driven by an arbitrary caller.                               *)

\* timestamp of the bar being processed: the callers stamp a fill with the
\* index entry of the current bar, and bars carry increasing timestamps
Now == Len(equity_curve)

Trades == [symbol : Symbols, type : Sides, quantity : Quantities,
           price : Prices, commission : Commissions, timestamp : {Now}]

\* price tables handed to update_portfolio: any symbol may be missing
PriceMaps == UNION {[S -> Prices] : S \in SUBSET Symbols}

NoTrade == [symbol |-> "", type |-> "", quantity |-> 0, price |-> 0,
            commission |-> 0, timestamp |-> 0]

\* PortfolioManager.__init__
InitLedger == [cash |-> RInt(InitialCash), positions |-> <<>>, trades |-> <<>>,
               closed_trades |-> <<>>, equity_curve |-> <<>>]

\* BacktestingEngine.__init__: no data (self.data = None)
NoData == [loaded |-> FALSE, close |-> <<>>]

\* Strategy.__init__: the fields of a Strategy object as constructed;
\* set tells whether the engine holds it (self.strategy is not None),
\* check_stop_loss whether the object has that method (every Strategy has),
\* in_position the flag the single-symbol strategies add (False as
\* constructed)
NewStrategy(symbol, stop_loss_percentage) ==
    [set |-> FALSE, symbol |-> symbol,
     portfolio_manager |-> FALSE, data |-> FALSE, current_index |-> -1,
     stop_loss_percentage |-> stop_loss_percentage,
     entry_price |-> 0, position_quantity |-> 0,
     check_stop_loss |-> TRUE, in_position |-> FALSE]

NoStrategy == NewStrategy("", Zero)

\* hist before any step: event names the step, bar its bar; start is the
\* ledger and before the strategy as the current bar (or the call of
\* run_backtest) found them, done the steps of the bar already taken, points
\* the length of the equity curve when the run started; sold tells whether
\* the last stop-loss check called Strategy.sell, tracked, entry and price
\* are the position_quantity, entry_price and current_price it saw
NoStep == [event |-> "init", bar |-> 0, start |-> InitLedger,
           before |-> NoStrategy, done |-> {}, points |-> 0,
           sold |-> FALSE, tracked |-> 0, entry |-> 0, price |-> 0]

\* a constructed engine: PortfolioManager(initial_cash), no data, no strategy
---------------------------------------------------------------------------
(* PerformanceCalculator.  A statistic is a float: a number val * sqrt(sq) *)
(* (val and sq exact rationals, sq > 0), not-a-number, or an infinity; the *)
(* power of cagr is kept as base and exponent.  Equity values and PnLs are *)
(* integers; the index of a curve is kept as the hours from its first to   *)
(* its last timestamp.                                                     *)

Num(v) == [kind |-> "num", val |-> v, sq |-> RInt(1)]
Root(v, q) == [kind |-> "num", val |-> v, sq |-> q]
NaN == [kind |-> "nan", val |-> Zero, sq |-> RInt(1)]
PosInf == [kind |-> "inf", val |-> Zero, sq |-> RInt(1)]
NegInf == [kind |-> "-inf", val |-> Zero, sq |-> RInt(1)]
\* base ** exponent - 1
PowerMinusOne(base, exponent) == [kind |-> "pow", val |-> base, sq |-> exponent]
\* an exception leaves the call
Raised(name) == [kind |-> name, val |-> Zero, sq |-> RInt(1)]
\* a positive float below 1e-15, left by rounding where the exact value is 0
Tiny == [kind |-> "tiny", val |-> RInt(1), sq |-> RInt(1)]
\* a finite float beyond 1e15 in size, of the given sign
Huge(sign) == [kind |-> "huge", val |-> RInt(sign), sq |-> RInt(1)]

RAbs(x) == Rat(Abs(x.n), x.d)
\* int(x)
RTrunc(x) == IF x.n >= 0 THEN x.n \div x.d ELSE -((-x.n) \div x.d)

RECURSIVE RSum(_)
RSum(rs) == IF rs = <<>> THEN Zero ELSE RAdd(Head(rs), RSum(Tail(rs)))

\* Series.mean of a non-empty series
Mean(rs) == RDiv(RSum(rs), RInt(Len(rs)))

RECURSIVE IsPowerOfTwo(_)
IsPowerOfTwo(d) == d = 1 \/ (d % 2 = 0 /\ IsPowerOfTwo(d \div 2))

\* The mean of n equal floats x is computed as (x + ... + x) / n in IEEE-754
\* doubles.  It is x again for n <= 2 and for an x with a short binary
\* expansion; for the doubles nearest -2/3 and -4/5 the sum of three is
\* rounded and the mean differs from x in its last place.
RoundedMeans == {<<Rat(-2, 3), 3>>, <<Rat(-4, 5), 3>>}
MeanRoundsOff(x, n) ==
    n >= 3 /\ ~IsPowerOfTwo(x.d) /\ <<x, n>> \in RoundedMeans

\* Series.std (sample standard deviation, ddof = 1): not-a-number for
\* fewer than two values; the deviations are taken from the float mean, so
\* equal values whose mean rounds off have a deviation that is not 0
SquaredDeviations(rs) ==
    [i \in 1..Len(rs) |-> RMul(RSub(rs[i], Mean(rs)), RSub(rs[i], Mean(rs)))]
Std(rs) ==
    IF Len(rs) < 2 THEN NaN
    ELSE LET variance == RDiv(RSum(SquaredDeviations(rs)), RInt(Len(rs) - 1))
         IN  IF variance = Zero
             THEN (IF MeanRoundsOff(rs[1], Len(rs)) THEN Tiny ELSE Num(Zero))
             ELSE Root(RInt(1), variance)

\* x * np.sqrt(252)
Annualized(x) ==
    IF x.kind = "nan" THEN NaN
    ELSE IF x.kind = "tiny" THEN Tiny
    ELSE IF x.val = Zero THEN Num(Zero)
    ELSE Root(x.val, RMul(x.sq, RInt(252)))

\* a / x for a number a and a non-zero x
Over(a, x) ==
    IF x.kind = "nan" THEN NaN
    ELSE IF x.kind = "tiny"
         THEN (IF a = Zero THEN Num(Zero) ELSE Huge(IF a.n < 0 THEN -1 ELSE 1))
    ELSE Root(RDiv(a, x.val), RDiv(RInt(1), x.sq))

\* risk_free_rate = 0.02
risk_free_rate == Rat(2, 100)

\* calculate_returns().dropna(): equity.pct_change() without its first,
\* undefined entry (for curves whose points before the last are not 0)
calculate_returns(equity) ==
    [i \in 1..(Len(equity) - 1) |->
        RSub(RDiv(RInt(equity[i + 1]), RInt(equity[i])), RInt(1))]

sharpe_ratio(equity) ==
    LET returns == calculate_returns(equity)
        annualized_returns == RMul(Mean(returns), RInt(252))
        annualized_std == Annualized(Std(returns))
    IN  IF returns = <<>> THEN Num(Zero)
        ELSE IF annualized_std = Num(Zero) THEN Num(Zero)
        ELSE Over(RSub(annualized_returns, risk_free_rate), annualized_std)

IsNegative(r) == RLt(r, Zero)

sortino_ratio(equity) ==
    LET returns == calculate_returns(equity)
        downside_returns == SelectSeq(returns, IsNegative)
        downside_std == Annualized(Std(downside_returns))
        annualized_returns == RMul(Mean(returns), RInt(252))
    IN  IF returns = <<>> THEN Num(Zero)
        ELSE IF downside_returns = <<>> THEN PosInf
        ELSE IF downside_std = Num(Zero) \/ downside_std.kind = "nan"
             THEN Num(Zero)
        ELSE Over(RSub(annualized_returns, risk_free_rate), downside_std)

\* equity.expanding(min_periods=1).max() at point i
RunningPeak(equity, i) ==
    CHOOSE p \in {equity[j] : j \in 1..i} : \A j \in 1..i : equity[j] <= p

\* (equity - peak) / peak at point i, in floats: 0/0 is not-a-number and a
\* negative number over 0 is -infinity
DrawdownAt(equity, i) ==
    LET peak == RunningPeak(equity, i)
    IN  IF peak = 0
        THEN IF equity[i] = peak THEN NaN ELSE NegInf
        ELSE Num(RDiv(RInt(equity[i] - peak), RInt(peak)))

\* Series.min: the smallest entry that is a number, not-a-number without one
SeriesMin(xs) ==
    LET defined == {xs[i] : i \in DOMAIN xs} \ {NaN}
    IN  IF defined = {} THEN NaN
        ELSE IF NegInf \in defined THEN NegInf
        ELSE CHOOSE x \in defined : \A y \in defined : RLe(x.val, y.val)

max_drawdown(equity) ==
    IF equity = <<>> THEN Num(Zero)
    ELSE SeriesMin([i \in 1..Len(equity) |-> DrawdownAt(equity, i)])

IsWin_ZeroWins(trade) == trade.pnl >= 0
IsWin(trade) == trade.pnl > 0
IsLoss(trade) == trade.pnl <= 0

win_loss_ratio(closed) ==
    LET wins == Len(SelectSeq(closed, IsWin))
        losses == Len(SelectSeq(closed, IsLoss))
    IN  IF closed = <<>> THEN Num(Zero)
        ELSE IF losses = 0 THEN (IF wins > 0 THEN PosInf ELSE Num(Zero))
        ELSE Num(Rat(wins, losses))

\* (index[-1] - index[0]).days: the whole days of a time span given in
\* hours, rounded down
Days(elapsed) == elapsed \div 24

cagr_ExactElapsed(equity, elapsed) ==
    IF equity = <<>> THEN Num(Zero)
    ELSE LET start_equity == equity[1]
             end_equity == equity[Len(equity)]
             num_years == Rat(elapsed, 24 * 365)
             growth == Rat(end_equity, start_equity)
         IN  IF start_equity <= 0 THEN Num(Zero)
             ELSE IF RLe(num_years, Zero) THEN Num(Zero)
             ELSE IF end_equity < start_equity
                  THEN Num(RDiv(RSub(growth, RInt(1)), num_years))
             ELSE PowerMinusOne(growth, RDiv(RInt(1), num_years))
cagr(equity, elapsed) ==
    IF equity = <<>> THEN Num(Zero)
    ELSE LET start_equity == equity[1]
             end_equity == equity[Len(equity)]
             num_years == Rat(Days(elapsed), 365)
             growth == Rat(end_equity, start_equity)
         IN  IF start_equity <= 0 THEN Num(Zero)
             ELSE IF RLe(num_years, Zero) THEN Num(Zero)
             ELSE IF end_equity < start_equity
                  THEN Num(RDiv(RSub(growth, RInt(1)), num_years))
             ELSE PowerMinusOne(growth, RDiv(RInt(1), num_years))

volatility(equity) ==
    LET returns == calculate_returns(equity)
    IN  IF returns = <<>> THEN Num(Zero) ELSE Annualized(Std(returns))

\* returns.sort_values(ascending=True)
RECURSIVE SortedInsert(_, _)
SortedInsert(r, rs) ==
    IF rs = <<>> THEN <<r>>
    ELSE IF RLe(r, Head(rs)) THEN <<r>> \o rs
    ELSE <<Head(rs)>> \o SortedInsert(r, Tail(rs))
RECURSIVE sort_values(_)
sort_values(rs) ==
    IF rs = <<>> THEN <<>> ELSE SortedInsert(Head(rs), sort_values(Tail(rs)))

\* Series.iloc[index] of a series of numbers, from 0, negative from the end
Iloc(rs, index) ==
    IF index >= Len(rs) \/ index < -Len(rs) THEN Raised("IndexError")
    ELSE Num(rs[IF index < 0 THEN Len(rs) + index + 1 ELSE index + 1])

value_at_risk(equity, confidence_level) ==
    LET returns == calculate_returns(equity)
        sorted_returns == sort_values(returns)
        var_index == RTrunc(RMul(RInt(Len(sorted_returns)),
                                 RSub(RInt(1), confidence_level)))
        at == Iloc(sorted_returns, var_index)
    IN  IF returns = <<>> THEN Num(Zero)
        ELSE IF at.kind = "num" THEN Num(RAbs(at.val)) ELSE at

generate_performance_report(equity, closed, ntrades, elapsed) ==
    [sharpe_ratio |-> sharpe_ratio(equity),
     sortino_ratio |-> sortino_ratio(equity),
     max_drawdown |-> max_drawdown(equity),
     win_loss_ratio |-> win_loss_ratio(closed),
     cagr |-> cagr(equity, elapsed),
     volatility |-> volatility(equity),
     value_at_risk |-> value_at_risk(equity, Rat(99, 100)),
     initial_cash |-> IF equity # <<>> THEN equity[1] ELSE 0,
     final_equity |-> IF equity # <<>> THEN equity[Len(equity)] ELSE 0,
     total_trades |-> ntrades]

\* no PerformanceCalculator has been constructed
\* equity.pct_change(): the column of returns, its first entry undefined
pct_change(equity) ==
    [i \in 1..Len(equity) |->
        IF i = 1 THEN NaN ELSE Num(calculate_returns(equity)[i - 1])]

\* calculate_returns writes the "returns" column of the calculator's frame
WithReturns_DropsFirstRow(c) ==
    [c EXCEPT !.returns = pct_change(c.equity_curve),
              !.equity_curve = Tail(c.equity_curve)]
WithReturns(c) == [c EXCEPT !.returns = pct_change(c.equity_curve)]

\* no PerformanceCalculator has been constructed.  equity_curve is the
\* "equity" column of the frame and returns its "returns" column (empty
\* while absent); passed is the equity list given to the constructor;
\* report and previous are the last report returned and the one before.
NoCalc == [built |-> FALSE, raised |-> "", equity_curve |-> <<>>, elapsed |-> 0,
           closed_trades |-> <<>>, trades |-> 0, op |-> "",
           confidence_level |-> Zero, result |-> Num(Zero),
           returns |-> <<>>, passed |-> <<>>, report |-> <<>>,
           previous |-> <<>>]

---------------------------------------------------------------------------

Init ==
    /\ cash = InitLedger.cash
    /\ positions = InitLedger.positions
    /\ trades = InitLedger.trades
    /\ closed_trades = InitLedger.closed_trades
    /\ equity_curve = InitLedger.equity_curve
    /\ call = [op |-> "init", trade |-> NoTrade, ret |-> TRUE,
               pre |-> InitLedger, prices |-> <<>>]
    /\ accepted = <<>>
    /\ data = NoData
    /\ strategy = NoStrategy
    /\ pc = [state |-> "idle", i |-> 0, k |-> 1, runs |-> 0, result |-> "not run"]
    /\ hist = NoStep
    /\ engines = <<>>
    /\ calc = NoCalc
    /\ root_manager = NewRootManager

SetLedger(L) ==
    /\ cash' = L.cash
    /\ positions' = L.positions
    /\ trades' = L.trades
    /\ closed_trades' = L.closed_trades
    /\ equity_curve' = L.equity_curve

\* the effect of one call of execute_trade with result r; call records the
\* fill, the result and the ledger as it was when the call was made
CallExecuteTrade(trade, r) ==
    /\ SetLedger(r.ledger)
    /\ call' = [op |-> "execute_trade", trade |-> trade,
                ret |-> r.ret, pre |-> Ledger, prices |-> <<>>]
    /\ accepted' = IF r.ret THEN Append(accepted, trade) ELSE accepted

\* the effect of one call of update_portfolio
CallUpdatePortfolio(current_price, timestamp) ==
    /\ SetLedger(update_portfolio(Ledger, current_price, timestamp))
    /\ call' = [op |-> "update_portfolio", trade |-> NoTrade,
                ret |-> TRUE, pre |-> Ledger, prices |-> current_price]
    /\ accepted' = accepted

\* one call of execute_trade by an arbitrary caller
ExecuteTrade(trade) ==
    /\ Len(trades) < MaxTrades
    /\ CallExecuteTrade(trade, execute_trade(Ledger, trade))
    /\ UNCHANGED enginevars

\* one call of update_portfolio
UpdatePortfolio(current_price) ==
    /\ Len(equity_curve) < MaxBars
    /\ CallUpdatePortfolio(current_price, Now + 1)
    /\ UNCHANGED enginevars

Next ==
    \/ \E trade \in Trades : ExecuteTrade(trade)
    \/ \E current_price \in PriceMaps : UpdatePortfolio(current_price)

Spec == Init /\ [][Next]_vars

---------------------------------------------------------------------------
(* The ledger holding two symbols, for the valuation of update_portfolio.  *)

ValuationSymbols == {"AAPL", "MSFT"}

\* fills in either symbol, all at one price and without commission
ValuationTrades ==
    [symbol : ValuationSymbols, type : Sides, quantity : OrderQuantities,
     price : {10}, commission : {0}, timestamp : {Now}]

\* price tables of update_portfolio: either symbol may be missing
ValuationPriceMaps == UNION {[S -> Prices] : S \in SUBSET ValuationSymbols}

ValuationFill(trade) ==
    /\ Len(trades) < MaxOrders
    /\ CallExecuteTrade(trade, execute_trade(Ledger, trade))
    /\ UNCHANGED enginevars

ValuationUpdate(current_price) ==
    /\ Len(equity_curve) < MaxBars
    /\ CallUpdatePortfolio(current_price, Now + 1)
    /\ UNCHANGED enginevars

NextValuation ==
    \/ \E trade \in ValuationTrades : ValuationFill(trade)
    \/ \E current_price \in ValuationPriceMaps : ValuationUpdate(current_price)

SpecValuation == Init /\ [][NextValuation]_vars

---------------------------------------------------------------------------
(* The two PortfolioManager implementations given the same long-only       *)
(* fills: buys, and sells of no more than the quantity held.               *)

\* the quantity of a symbol a table of positions holds
HeldIn(pos, symbol) == IF symbol \in DOMAIN pos THEN pos[symbol].quantity ELSE 0

\* a fill of a long-only sequence: a sell does not exceed the quantity held
LongOnly(trade) ==
    trade.type = "sell"
        => /\ trade.quantity <= HeldIn(positions, trade.symbol)
           /\ trade.quantity <= HeldIn(root_manager.positions, trade.symbol)

\* one fill given to execute_trade of both implementations
BothExecuteTrade(trade) ==
    /\ Len(trades) < MaxTrades
    /\ LongOnly(trade)
    /\ CallExecuteTrade(trade, execute_trade(Ledger, trade))
    /\ root_manager' = root_execute_trade(root_manager, trade)
    /\ UNCHANGED <<data, strategy, pc, hist, engines, calc>>

\* the fills given to both: one or two lots, at any price and commission
BothTrades == {trade \in Trades : trade.quantity \in OrderQuantities}

NextBoth == \E trade \in BothTrades : BothExecuteTrade(trade)

SpecBoth == Init /\ [][NextBoth]_vars

---------------------------------------------------------------------------
(* BacktestingEngine and the Strategy base class.                          *)
(*                                                                         *)
(* A price table is the sequence of its closing prices; row r (from 0) has *)
(* the timestamp r + 1.  The strategy is any subclass whose on_bar stores  *)
(* the index it is given and then calls buy and sell at the bar's price.   *)

\* closing prices of the tables load_data can return
BarPrices == {40, 50}
DataSets == UNION {[1..n -> BarPrices] : n \in 1..MaxDataBars}


\* stop_loss_percentage of the strategies: 0.0 (the default) and 0.2
StopLossPcts == {Zero, Rat(1, 5)}

NumBars == Len(data.close)

\* row[col] of bar i for the Close_ column
ClosePrice(i) == data.close[i + 1]

\* current_prices of bar i: one entry per Close_ column of the table
current_prices(i) == [s \in Symbols |-> ClosePrice(i)]

\* data.index[idx]: a negative idx counts from the end, an idx outside the
\* table raises IndexError
IndexInRange(idx) == idx >= -NumBars /\ idx < NumBars
IndexAt(idx) == IF idx < 0 THEN NumBars + idx + 1 ELSE idx + 1

\* timestamp of bar i (the index entry of its row)
BarTimestamp(i) == i + 1

\* the order in which run_backtest treats a bar: update_portfolio,
\* check_stop_loss, on_bar
BarSteps_UpdateLast == <<"stop_loss", "on_bar", "update">>
BarSteps == <<"update", "stop_loss", "on_bar">>

\* run_backtest goes on to iterate: "self.data is None" and
\* "self.strategy is None" both fail
CanRun_DataOnly(d, st) == d.loaded
CanRun(d, st) == d.loaded /\ st.set

\* the trade dictionary Strategy.buy and Strategy.sell build
StrategyTrade(st, side, quantity, price) ==
    [symbol |-> st.symbol, type |-> side, quantity |-> quantity,
     price |-> price, commission |-> 0,
     timestamp |-> IndexAt(st.current_index)]

\* Strategy.buy after execute_trade returned ret
AfterBuy(st, ret, quantity, price) ==
    IF ret THEN [st EXCEPT !.entry_price = price, !.position_quantity = quantity]
    ELSE st

\* Strategy.sell after execute_trade returned ret
AfterSell(st, ret) ==
    IF ret THEN [st EXCEPT !.entry_price = 0, !.position_quantity = 0]
    ELSE st

\* the condition under which check_stop_loss sells
StopLossTriggers_StrictlyBelow(st, current_price) ==
    /\ st.position_quantity > 0
    /\ RLt(Zero, st.stop_loss_percentage)
    /\ RLt(RInt(current_price),
           RMul(RInt(st.entry_price), RSub(RInt(1), st.stop_loss_percentage)))
StopLossTriggers(st, current_price) ==
    /\ st.position_quantity > 0
    /\ RLt(Zero, st.stop_loss_percentage)
    /\ RLe(RInt(current_price),
           RMul(RInt(st.entry_price), RSub(RInt(1), st.stop_loss_percentage)))

\* where run_backtest stands after the step it is at: the next step of the
\* bar, the first step of the next bar, or the return of the curves
Advance(p) ==
    IF p.k < Len(BarSteps) THEN [p EXCEPT !.state = "step", !.k = p.k + 1]
    ELSE IF p.i + 1 < NumBars
         THEN [p EXCEPT !.state = "step", !.i = p.i + 1, !.k = 1]
         ELSE [p EXCEPT !.state = "idle", !.runs = p.runs + 1,
                        !.result = "curves"]

AtStep(name) == pc.state = "step" /\ BarSteps[pc.k] = name

\* hist after a step of the current bar: when the step ends the bar, the
\* next bar starts from the ledger L and the strategy st the step leaves
Stepped(event, L, st, h) ==
    LET h1 == [h EXCEPT !.event = event, !.bar = pc.i,
                        !.done = h.done \cup {event}]
    IN  IF pc.k < Len(BarSteps) THEN h1
        ELSE [h1 EXCEPT !.done = {}, !.start = L, !.before = st]

\* BacktestingEngine.load_data: the table, or None when nothing was loaded
LoadData(d) ==
    /\ pc.state = "idle"
    /\ data' = d
    /\ hist' = [hist EXCEPT !.event = "load_data"]
    /\ UNCHANGED <<ledgervars, strategy, pc>>
    /\ UNCHANGED othervars

\* BacktestingEngine.set_strategy with a newly constructed strategy
SetStrategy(symbol, stop_loss_percentage) ==
    /\ pc.state = "idle"
    /\ strategy' = [NewStrategy(symbol, stop_loss_percentage) EXCEPT !.set = TRUE]
    /\ hist' = [hist EXCEPT !.event = "set_strategy"]
    /\ UNCHANGED <<ledgervars, data, pc>>
    /\ UNCHANGED othervars

\* BacktestingEngine.set_strategy with an object that is no Strategy: it has
\* initialize, set_data, on_bar and a symbol, and no check_stop_loss
SetPlainStrategy(symbol) ==
    /\ pc.state = "idle"
    /\ strategy' = [NewStrategy(symbol, Zero) EXCEPT !.set = TRUE,
                                                    !.check_stop_loss = FALSE]
    /\ hist' = [hist EXCEPT !.event = "set_strategy"]
    /\ UNCHANGED <<ledgervars, data, pc>>
    /\ UNCHANGED othervars

\* the engine's test before it calls check_stop_loss:
\* hasattr(self.strategy, 'symbol') and self.strategy.symbol in current_prices
CallsStopLoss(st, prices) == st.symbol \in DOMAIN prices

\* BacktestingEngine.run_backtest up to the loop: None without data or
\* strategy, else strategy.initialize and strategy.set_data
RunBacktest ==
    /\ pc.state = "idle"
    /\ pc.runs < MaxRuns
    /\ IF CanRun(data, strategy)
       THEN /\ strategy' = [strategy EXCEPT !.portfolio_manager = TRUE,
                                            !.data = TRUE]
            /\ pc' = [pc EXCEPT !.state = "step", !.i = 0, !.k = 1,
                                !.result = "running"]
            /\ hist' = [hist EXCEPT !.event = "start", !.bar = 0,
                                    !.start = Ledger, !.before = strategy,
                                    !.done = {}, !.points = Len(equity_curve)]
       ELSE /\ strategy' = strategy
            /\ pc' = [pc EXCEPT !.result = "None"]
            /\ hist' = [hist EXCEPT !.event = "config_error",
                                    !.start = Ledger, !.before = strategy]
    /\ UNCHANGED <<ledgervars, data>>
    /\ UNCHANGED othervars

\* the loop body, "self.portfolio_manager.update_portfolio(current_prices, index)"
BarUpdate ==
    /\ AtStep("update")
    /\ CallUpdatePortfolio(current_prices(pc.i), BarTimestamp(pc.i))
    /\ pc' = Advance(pc)
    /\ hist' = Stepped("update", Ledger', strategy, hist)
    /\ UNCHANGED <<data, strategy>>
    /\ UNCHANGED othervars

\* the loop body, the stop-loss check: Strategy.check_stop_loss when the
\* strategy's symbol has a price, and the Strategy.sell it makes
BarStopLoss ==
    /\ AtStep("stop_loss")
    /\ LET price == current_prices(pc.i)[strategy.symbol]
           checked == CallsStopLoss(strategy, current_prices(pc.i))
           h == [hist EXCEPT !.tracked = strategy.position_quantity,
                             !.entry = strategy.entry_price,
                             !.price = IF checked THEN price ELSE 0]
       IN  IF checked /\ ~strategy.check_stop_loss
           THEN \* AttributeError leaves run_backtest
                /\ pc' = [pc EXCEPT !.state = "idle", !.runs = pc.runs + 1,
                                    !.result = "AttributeError"]
                /\ hist' = [hist EXCEPT !.event = "no_check_stop_loss",
                                        !.bar = pc.i]
                /\ UNCHANGED <<ledgervars, strategy>>
           ELSE IF checked /\ StopLossTriggers(strategy, price)
           THEN IF IndexInRange(strategy.current_index)
                THEN LET trade == StrategyTrade(strategy, "sell",
                                      strategy.position_quantity, price)
                         r == execute_trade(Ledger, trade)
                     IN  /\ CallExecuteTrade(trade, r)
                         /\ strategy' = AfterSell(strategy, r.ret)
                         /\ pc' = Advance(pc)
                         /\ hist' = Stepped("stop_loss", r.ledger, strategy',
                                            [h EXCEPT !.sold = TRUE])
                ELSE \* IndexError leaves run_backtest
                     /\ pc' = [pc EXCEPT !.state = "idle", !.runs = pc.runs + 1,
                                         !.result = "IndexError"]
                     /\ hist' = [h EXCEPT !.event = "raised", !.bar = pc.i,
                                          !.sold = TRUE]
                     /\ UNCHANGED <<ledgervars, strategy>>
           ELSE /\ pc' = Advance(pc)
                /\ hist' = Stepped("stop_loss", Ledger, strategy,
                                   [h EXCEPT !.sold = FALSE])
                /\ UNCHANGED <<ledgervars, strategy>>
    /\ UNCHANGED data
    /\ UNCHANGED othervars

\* the loop body, "self.strategy.on_bar(i, row)": on_bar stores the index
OnBarEnter ==
    /\ AtStep("on_bar")
    /\ strategy' = [strategy EXCEPT !.current_index = pc.i]
    /\ pc' = [pc EXCEPT !.state = "in_bar"]
    /\ hist' = [hist EXCEPT !.event = "on_bar_enter", !.bar = pc.i]
    /\ UNCHANGED <<ledgervars, data>>
    /\ UNCHANGED othervars

\* Strategy.buy called by on_bar at the bar's price
StrategyBuy(quantity) ==
    /\ pc.state = "in_bar"
    /\ Len(trades) < MaxOrders
    /\ LET price == ClosePrice(pc.i)
           trade == StrategyTrade(strategy, "buy", quantity, price)
           r == execute_trade(Ledger, trade)
       IN  /\ CallExecuteTrade(trade, r)
           /\ strategy' = AfterBuy(strategy, r.ret, quantity, price)
    /\ hist' = [hist EXCEPT !.event = "order", !.bar = pc.i]
    /\ UNCHANGED <<data, pc>>
    /\ UNCHANGED othervars

\* Strategy.sell called by on_bar at the bar's price
StrategySell(quantity) ==
    /\ pc.state = "in_bar"
    /\ Len(trades) < MaxOrders
    /\ LET price == ClosePrice(pc.i)
           trade == StrategyTrade(strategy, "sell", quantity, price)
           r == execute_trade(Ledger, trade)
       IN  /\ CallExecuteTrade(trade, r)
           /\ strategy' = AfterSell(strategy, r.ret)
    /\ hist' = [hist EXCEPT !.event = "order", !.bar = pc.i]
    /\ UNCHANGED <<data, pc>>
    /\ UNCHANGED othervars

\* on_bar returns to the loop
OnBarReturn ==
    /\ pc.state = "in_bar"
    /\ pc' = Advance([pc EXCEPT !.state = "step"])
    /\ hist' = Stepped("on_bar", Ledger, strategy, hist)
    /\ UNCHANGED <<ledgervars, data, strategy>>
    /\ UNCHANGED othervars

Tables == {NoData} \cup {[loaded |-> TRUE, close |-> c] : c \in DataSets}

NextEngine ==
    \/ \E d \in Tables : LoadData(d)
    \/ \E symbol \in Symbols, pct \in StopLossPcts : SetStrategy(symbol, pct)
    \/ \E symbol \in Symbols : SetPlainStrategy(symbol)
    \/ RunBacktest
    \/ BarUpdate
    \/ BarStopLoss
    \/ OnBarEnter
    \/ \E quantity \in OrderQuantities : StrategyBuy(quantity)
    \/ \E quantity \in OrderQuantities : StrategySell(quantity)
    \/ OnBarReturn

SpecEngine == Init /\ [][NextEngine]_vars

---------------------------------------------------------------------------
(* The engine running a single-symbol strategy (MovingAverageCrossover,    *)
(* RSIStrategy, MeanReversion, LSTMStrategy).  Their on_bar is the same but *)
(* for the indicator that gives the signal; the signal of a bar is any of  *)
(* buy, sell and none.                                                     *)

\* int(self.portfolio_manager.cash / current_price)
quantity_to_buy(c, current_price) == RTrunc(RDiv(c, RInt(current_price)))

\* self.portfolio_manager.positions.get(self.symbol, {}).get("quantity", 0)
quantity_to_sell(pos, symbol) ==
    IF symbol \in DOMAIN pos THEN pos[symbol].quantity ELSE 0

\* on_bar with a buy signal while not in_position and a quantity to buy:
\* Strategy.buy, then in_position = True, whatever buy returned
SignalBuy ==
    /\ pc.state = "in_bar"
    /\ ~strategy.in_position
    /\ LET price == ClosePrice(pc.i)
           quantity == quantity_to_buy(cash, price)
           trade == StrategyTrade(strategy, "buy", quantity, price)
           r == execute_trade(Ledger, trade)
       IN  /\ quantity > 0
           /\ CallExecuteTrade(trade, r)
           /\ strategy' = [AfterBuy(strategy, r.ret, quantity, price)
                              EXCEPT !.in_position = TRUE]
           /\ hist' = Stepped("on_bar", r.ledger, strategy', hist)
    /\ pc' = Advance([pc EXCEPT !.state = "step"])
    /\ UNCHANGED data
    /\ UNCHANGED othervars

\* on_bar with a sell signal while in_position and a quantity to sell:
\* Strategy.sell, then in_position = False
SignalSell ==
    /\ pc.state = "in_bar"
    /\ strategy.in_position
    /\ LET price == ClosePrice(pc.i)
           quantity == quantity_to_sell(positions, strategy.symbol)
           trade == StrategyTrade(strategy, "sell", quantity, price)
           r == execute_trade(Ledger, trade)
       IN  /\ quantity > 0
           /\ CallExecuteTrade(trade, r)
           /\ strategy' = [AfterSell(strategy, r.ret)
                              EXCEPT !.in_position = FALSE]
           /\ hist' = Stepped("on_bar", r.ledger, strategy', hist)
    /\ pc' = Advance([pc EXCEPT !.state = "step"])
    /\ UNCHANGED data
    /\ UNCHANGED othervars

\* the engine with a single-symbol strategy; OnBarReturn is the on_bar that
\* places no order (no signal, or a signal whose condition or quantity fails)
NextSignal ==
    \/ \E d \in Tables : LoadData(d)
    \/ \E symbol \in Symbols, pct \in StopLossPcts : SetStrategy(symbol, pct)
    \/ RunBacktest
    \/ BarUpdate
    \/ BarStopLoss
    \/ OnBarEnter
    \/ SignalBuy
    \/ SignalSell
    \/ OnBarReturn

SpecSignal == Init /\ [][NextSignal]_vars

---------------------------------------------------------------------------
(* PairsTradingStrategy on its ledger: on_bar is called bar after bar with *)
(* the two close prices of the bar; the z-score of a bar is any of above   *)
(* entry_zscore, below -entry_zscore, within exit_zscore and none of these. *)

\* bars given to on_bar
MaxPairBars == 3

PairPrices == {40, 50}

\* PairsTradingStrategy(symbol1, symbol2)
symbol1 == "AAPL"
symbol2 == "MSFT"

\* PairsTradingStrategy.__init__, initialize and set_data: the base class
\* is constructed with symbol1 as its symbol
PairsSetUp ==
    /\ ~strategy.set
    /\ strategy' = [NewStrategy(symbol1, Zero) EXCEPT !.set = TRUE,
                                                     !.portfolio_manager = TRUE,
                                                     !.data = TRUE]
    /\ hist' = [hist EXCEPT !.event = "set_strategy"]
    /\ UNCHANGED <<ledgervars, call, accepted, data, pc>>
    /\ UNCHANGED othervars

\* int(self.portfolio_manager.cash * 0.5 / price)
PairQuantity(c, price) == RTrunc(RDiv(RMul(c, Rat(1, 2)), RInt(price)))

\* on_bar is entered for the next bar
PairBar(st) == st.set /\ st.current_index + 1 < MaxPairBars

\* two orders placed one after the other by on_bar, each through
\* Strategy.buy or Strategy.sell; then in_position is set
PairOrders(event, side1, quantity1, price1, side2, quantity2, price2, flag) ==
    LET st0 == [strategy EXCEPT !.current_index = strategy.current_index + 1]
        trade1 == StrategyTrade(st0, side1, quantity1, price1)
        r1 == execute_trade(Ledger, trade1)
        st1 == IF side1 = "buy" THEN AfterBuy(st0, r1.ret, quantity1, price1)
               ELSE AfterSell(st0, r1.ret)
        trade2 == StrategyTrade(st1, side2, quantity2, price2)
        r2 == execute_trade(r1.ledger, trade2)
        st2 == IF side2 = "buy" THEN AfterBuy(st1, r2.ret, quantity2, price2)
               ELSE AfterSell(st1, r2.ret)
    IN  /\ SetLedger(r2.ledger)
        /\ call' = [op |-> "execute_trade", trade |-> trade2, ret |-> r2.ret,
                    pre |-> r1.ledger, prices |-> <<>>]
        /\ accepted' = (IF r1.ret THEN Append(accepted, trade1) ELSE accepted)
                           \o (IF r2.ret THEN <<trade2>> ELSE <<>>)
        /\ strategy' = [st2 EXCEPT !.in_position = flag]
        /\ hist' = [hist EXCEPT !.event = event, !.bar = st0.current_index,
                                !.start = Ledger, !.before = strategy]
        /\ UNCHANGED <<data, pc>>
        /\ UNCHANGED othervars

\* on_bar, not in_position, zscore > entry_zscore: "Short symbol1, Long
\* symbol2"
PairsEnterShortLong(price1, price2) ==
    /\ PairBar(strategy)
    /\ ~strategy.in_position
    /\ LET quantity1 == PairQuantity(cash, price1)
           quantity2 == PairQuantity(cash, price2)
       IN  /\ quantity1 > 0 /\ quantity2 > 0
           /\ PairOrders("enter_short_long", "sell", quantity1, price1,
                         "buy", quantity2, price2, TRUE)

\* on_bar, not in_position, zscore < -entry_zscore: "Long symbol1, Short
\* symbol2"
PairsEnterLongShort(price1, price2) ==
    /\ PairBar(strategy)
    /\ ~strategy.in_position
    /\ LET quantity1 == PairQuantity(cash, price1)
           quantity2 == PairQuantity(cash, price2)
       IN  /\ quantity1 > 0 /\ quantity2 > 0
           /\ PairOrders("enter_long_short", "buy", quantity1, price1,
                         "sell", quantity2, price2, TRUE)

\* on_bar, in_position, abs(zscore) < exit_zscore: the position of symbol1
\* and the position of symbol2 are closed, each if it is open
PairsExit(price1, price2) ==
    /\ PairBar(strategy)
    /\ strategy.in_position
    /\ LET st0 == [strategy EXCEPT !.current_index = strategy.current_index + 1]
           qty1 == quantity_to_sell(positions, symbol1)
           trade1 == StrategyTrade(st0, IF qty1 > 0 THEN "sell" ELSE "buy",
                                   Abs(qty1), price1)
           r1 == IF qty1 # 0 THEN execute_trade(Ledger, trade1)
                 ELSE [ret |-> FALSE, ledger |-> Ledger]
           st1 == IF qty1 = 0 THEN st0
                  ELSE IF qty1 > 0 THEN AfterSell(st0, r1.ret)
                  ELSE AfterBuy(st0, r1.ret, Abs(qty1), price1)
           qty2 == quantity_to_sell(r1.ledger.positions, symbol2)
           trade2 == StrategyTrade(st1, IF qty2 > 0 THEN "sell" ELSE "buy",
                                   Abs(qty2), price2)
           r2 == IF qty2 # 0 THEN execute_trade(r1.ledger, trade2)
                 ELSE [ret |-> FALSE, ledger |-> r1.ledger]
           st2 == IF qty2 = 0 THEN st1
                  ELSE IF qty2 > 0 THEN AfterSell(st1, r2.ret)
                  ELSE AfterBuy(st1, r2.ret, Abs(qty2), price2)
       IN  /\ SetLedger(r2.ledger)
           /\ call' = IF qty2 # 0
                      THEN [op |-> "execute_trade", trade |-> trade2,
                            ret |-> r2.ret, pre |-> r1.ledger, prices |-> <<>>]
                      ELSE IF qty1 # 0
                      THEN [op |-> "execute_trade", trade |-> trade1,
                            ret |-> r1.ret, pre |-> Ledger, prices |-> <<>>]
                      ELSE call
           /\ accepted' = (IF r1.ret THEN Append(accepted, trade1) ELSE accepted)
                              \o (IF r2.ret THEN <<trade2>> ELSE <<>>)
           /\ strategy' = [st2 EXCEPT !.in_position = FALSE]
           /\ hist' = [hist EXCEPT !.event = "exit", !.bar = st0.current_index,
                                   !.start = Ledger, !.before = strategy]
    /\ UNCHANGED <<data, pc>>
    /\ UNCHANGED othervars

\* on_bar that places no order: the history is shorter than the window,
\* std_spread is 0, or the z-score gives no signal
PairsNoOrder ==
    /\ PairBar(strategy)
    /\ strategy' = [strategy EXCEPT !.current_index = strategy.current_index + 1]
    /\ hist' = [hist EXCEPT !.event = "no_order",
                            !.bar = strategy.current_index + 1]
    /\ UNCHANGED <<ledgervars, call, accepted, data, pc>>
    /\ UNCHANGED othervars

NextPairs ==
    \/ PairsSetUp
    \/ \E price1, price2 \in PairPrices : PairsEnterShortLong(price1, price2)
    \/ \E price1, price2 \in PairPrices : PairsEnterLongShort(price1, price2)
    \/ \E price1, price2 \in PairPrices : PairsExit(price1, price2)
    \/ PairsNoOrder

SpecPairs == Init /\ [][NextPairs]_vars

---------------------------------------------------------------------------
(* Two backtest runs side by side, as run_backtest_for_strategy makes      *)
(* them: each constructs its own BacktestingEngine (and with it its own    *)
(* PortfolioManager) and its own strategy, and loads the same price table. *)
(* The strategies use no randomness: on bar i, on_bar places the orders    *)
(* its parameters fix for that bar.                                        *)

RunIds == {1, 2}

\* the orders on_bar can place on one bar
PlanOrders == {<<>>,
               <<[type |-> "buy", quantity |-> 50]>>,
               <<[type |-> "sell", quantity |-> 100]>>}

\* the parameters of a strategy: the orders of every bar of the table d
Plans(d) == [0..(Len(d.close) - 1) -> PlanOrders]

\* BacktestingEngine(initial_cash, data_path), set_strategy and run_backtest
\* up to the loop
NewEngine(plan, stop_loss_percentage) ==
    [plan |-> plan,
     L |-> InitLedger,
     st |-> [NewStrategy("AAPL", stop_loss_percentage)
                 EXCEPT !.set = TRUE, !.portfolio_manager = TRUE, !.data = TRUE],
     i |-> 0, k |-> 1, done |-> FALSE]

\* Strategy.buy and Strategy.sell, one after the other, for the orders of
\* on_bar at the price of bar i
RECURSIVE PlaceOrders(_, _, _, _)
PlaceOrders(L, st, orders, i) ==
    IF orders = <<>> THEN [L |-> L, st |-> st]
    ELSE LET o == Head(orders)
             trade == StrategyTrade(st, o.type, o.quantity, ClosePrice(i))
             r == execute_trade(L, trade)
         IN  PlaceOrders(r.ledger,
                         IF o.type = "buy"
                         THEN AfterBuy(st, r.ret, o.quantity, ClosePrice(i))
                         ELSE AfterSell(st, r.ret),
                         Tail(orders), i)

\* one step of the loop body of run_backtest on the engine e
EngineStep(e) ==
    LET step == BarSteps[e.k]
        price == current_prices(e.i)[e.st.symbol]
        after ==
            IF step = "update"
            THEN [e EXCEPT !.L = update_portfolio(e.L, current_prices(e.i),
                                                  BarTimestamp(e.i))]
            ELSE IF step = "stop_loss"
            THEN IF CallsStopLoss(e.st, current_prices(e.i))
                    /\ StopLossTriggers(e.st, price)
                 THEN LET trade == StrategyTrade(e.st, "sell",
                                       e.st.position_quantity, price)
                          r == execute_trade(e.L, trade)
                      IN  [e EXCEPT !.L = r.ledger,
                                    !.st = AfterSell(e.st, r.ret)]
                 ELSE e
            ELSE LET r == PlaceOrders(e.L,
                              [e.st EXCEPT !.current_index = e.i],
                              e.plan[e.i], e.i)
                 IN  [e EXCEPT !.L = r.L, !.st = r.st]
    IN  IF e.k < Len(BarSteps) THEN [after EXCEPT !.k = e.k + 1]
        ELSE IF e.i + 1 < NumBars THEN [after EXCEPT !.i = e.i + 1, !.k = 1]
        ELSE [after EXCEPT !.done = TRUE]

\* run_backtest carried to its end with nothing else going on
RECURSIVE RunAlone(_)
RunAlone(e) == IF e.done THEN e ELSE RunAlone(EngineStep(e))

\* a step of run e among the runs E: it works on the objects of its own
\* engine only
TwoRunsStep_SharedLedger(E, e) ==
    LET stepped == EngineStep([E[e] EXCEPT !.L = E[1].L])
    IN  [[E EXCEPT ![e] = [stepped EXCEPT !.L = E[e].L]]
            EXCEPT ![1].L = stepped.L]
TwoRunsStep_SharedStrategy(E, e) ==
    LET stepped == EngineStep([E[e] EXCEPT !.st = E[1].st])
    IN  [[E EXCEPT ![e] = [stepped EXCEPT !.st = E[e].st]]
            EXCEPT ![1].st = stepped.st]
TwoRunsStep(E, e) == [E EXCEPT ![e] = EngineStep(E[e])]

InitTwoRuns ==
    /\ cash = InitLedger.cash
    /\ positions = InitLedger.positions
    /\ trades = InitLedger.trades
    /\ closed_trades = InitLedger.closed_trades
    /\ equity_curve = InitLedger.equity_curve
    /\ call = [op |-> "init", trade |-> NoTrade, ret |-> TRUE,
               pre |-> InitLedger, prices |-> <<>>]
    /\ accepted = <<>>
    /\ data \in Tables \ {NoData}
    /\ strategy = NoStrategy
    /\ pc = [state |-> "idle", i |-> 0, k |-> 1, runs |-> 0, result |-> "not run"]
    /\ hist = NoStep
    /\ engines \in [RunIds -> {NewEngine(plan, pct) :
                                  plan \in Plans(data), pct \in StopLossPcts}]
    /\ calc = NoCalc
    /\ root_manager = NewRootManager

StepRun(e) ==
    /\ ~engines[e].done
    /\ engines' = TwoRunsStep(engines, e)
    /\ UNCHANGED <<ledgervars, data, strategy, pc, hist, calc, root_manager>>

NextTwoRuns == \E e \in RunIds : StepRun(e)

SpecTwoRuns == InitTwoRuns /\ [][NextTwoRuns]_vars

---------------------------------------------------------------------------
(* A PerformanceCalculator driven by an arbitrary caller.                  *)

ReportEquities == {50, 100, 200}

\* curves of four daily points: three equal falls by two thirds, three equal
\* falls by a half, and two unequal falls around a rise
LongCurves == {<<27, 9, 3, 1>>, <<400, 200, 100, 50>>, <<200, 100, 200, 50>>}

\* the curve of test_cagr, 2020-01-01 to 2022-01-01
TestCurve == <<100000, 120000, 150000>>

\* equity curves handed to the calculator: none, up to MaxPoints points of
\* positive equity, and the one point of a ledger whose cash is spent and
\* whose position has no price
ReportCurves ==
    UNION {[1..n -> ReportEquities] : n \in 0..MaxPoints} \cup {<<0>>}
        \cup LongCurves \cup {TestCurve}

\* hours from the first to the last timestamp of a curve: daily points,
\* and for two points also points within a day, a day and a half apart, and
\* an index that runs backwards
Spans(equity) ==
    IF Len(equity) <= 1 THEN {0}
    ELSE IF equity = TestCurve THEN {731 * 24}
    ELSE IF Len(equity) = 2 THEN {24, 12, 36, -12}
    ELSE {24 * (Len(equity) - 1)}

ClosedPnls == {-10, 0, 10}

\* closed-trade logs handed to the calculator
ClosedLogs ==
    UNION {[1..n -> [symbol : {"AAPL"}, pnl : ClosedPnls]] : n \in 0..MaxClosed}

\* confidence levels asked of value_at_risk
ConfidenceLevels == {Zero, Rat(1, 2), Rat(99, 100), RInt(1)}

\* PerformanceCalculator.__init__: pd.DataFrame(equity_curve)
\* .set_index("timestamp") raises KeyError for a list without points
NewCalculator(equity, closed, elapsed) ==
    /\ calc = NoCalc
    /\ calc' = IF equity = <<>>
               THEN [NoCalc EXCEPT !.raised = "KeyError", !.op = "__init__"]
               ELSE [NoCalc EXCEPT !.built = TRUE, !.op = "__init__",
                                   !.equity_curve = equity,
                                   !.passed = equity,
                                   !.elapsed = elapsed,
                                   !.closed_trades = closed,
                                   !.trades = 2 * Len(closed)]
    /\ UNCHANGED <<ledgervars, data, strategy, pc, hist, engines, root_manager>>

\* the call of one method on the calculator; the methods that work on
\* returns call calculate_returns
UsesReturns == {"sharpe_ratio", "sortino_ratio", "volatility",
                "value_at_risk", "generate_performance_report"}
Asked(op, result) ==
    /\ calc.built
    /\ calc' = [(IF op \in UsesReturns THEN WithReturns(calc) ELSE calc)
                    EXCEPT !.op = op, !.result = result,
                           !.confidence_level = Zero]
    /\ UNCHANGED <<ledgervars, data, strategy, pc, hist, engines, root_manager>>

SharpeRatio == Asked("sharpe_ratio", sharpe_ratio(calc.equity_curve))
SortinoRatio == Asked("sortino_ratio", sortino_ratio(calc.equity_curve))
MaxDrawdown == Asked("max_drawdown", max_drawdown(calc.equity_curve))
WinLossRatio == Asked("win_loss_ratio", win_loss_ratio(calc.closed_trades))
Cagr == Asked("cagr", cagr(calc.equity_curve, calc.elapsed))
Volatility == Asked("volatility", volatility(calc.equity_curve))

ValueAtRisk(confidence_level) ==
    /\ calc.built
    /\ calc' = [WithReturns(calc) EXCEPT !.op = "value_at_risk",
                            !.result = value_at_risk(calc.equity_curve,
                                                     confidence_level),
                            !.confidence_level = confidence_level]
    /\ UNCHANGED <<ledgervars, data, strategy, pc, hist, engines, root_manager>>

GeneratePerformanceReport ==
    LET report == generate_performance_report(calc.equity_curve,
                                              calc.closed_trades,
                                              calc.trades, calc.elapsed)
    IN  /\ calc.built
        /\ calc' = [WithReturns(calc)
                        EXCEPT !.op = "generate_performance_report",
                               !.result = report,
                               !.confidence_level = Zero,
                               !.previous = calc.report,
                               !.report = <<report>>]
        /\ UNCHANGED <<ledgervars, data, strategy, pc, hist, engines, root_manager>>

NextReport ==
    \/ \E equity \in ReportCurves, closed \in ClosedLogs :
           \E elapsed \in Spans(equity) : NewCalculator(equity, closed, elapsed)
    \/ SharpeRatio
    \/ SortinoRatio
    \/ MaxDrawdown
    \/ WinLossRatio
    \/ Cagr
    \/ Volatility
    \/ \E confidence_level \in ConfidenceLevels : ValueAtRisk(confidence_level)
    \/ GeneratePerformanceReport

SpecReport == Init /\ [][NextReport]_vars

---------------------------------------------------------------------------
(* Vocabulary of the properties: the last call and the ledger around it.   *)

IsFill == call.op = "execute_trade"
Accepted == IsFill /\ call.ret
AcceptedBuy == Accepted /\ call.trade.type = "buy"
AcceptedSell == Accepted /\ call.trade.type = "sell"

QtyIn(pos, symbol) == IF symbol \in DOMAIN pos THEN pos[symbol].quantity ELSE 0
AvgIn(pos, symbol) == IF symbol \in DOMAIN pos THEN pos[symbol].avg_price ELSE Zero

\* the fill's symbol before and after the call
PreQty == QtyIn(call.pre.positions, call.trade.symbol)
PreAvg == AvgIn(call.pre.positions, call.trade.symbol)
PostQty == QtyIn(positions, call.trade.symbol)
Held == call.trade.symbol \in DOMAIN positions

FillCost == RInt(call.trade.quantity * call.trade.price + call.trade.commission)
FillProceeds == RInt(call.trade.quantity * call.trade.price - call.trade.commission)

\* closed_trades is the log before the call with exactly the entry ct appended
AppendedClosed(ct) == closed_trades = Append(call.pre.closed_trades, ct)
AppendedOneClosed ==
    /\ Len(closed_trades) = Len(call.pre.closed_trades) + 1
    /\ SubSeq(closed_trades, 1, Len(call.pre.closed_trades)) = call.pre.closed_trades
    /\ closed_trades[Len(closed_trades)].symbol = call.trade.symbol

---------------------------------------------------------------------------
(* Properties of execute_trade.                                            *)

\* C1: a buy whose cost exceeds the cash returns False and leaves cash,
\* positions, trade log, closed-trade log and equity curve as they were,
\* also when the symbol had no position before the call.
C1_RejectedBuyLeavesLedgerUnchanged ==
    (IsFill /\ call.trade.type = "buy" /\ RLt(call.pre.cash, FillCost))
        => (call.ret = FALSE /\ Ledger = call.pre)

\* C2: after any sequence of execute_trade and update_portfolio calls no
\* symbol of positions has quantity 0.
C2_NoZeroQuantityPosition ==
    \A s \in DOMAIN positions : positions[s].quantity # 0

\* C3: every accepted sell, in every branch, adds exactly
\* quantity * price - commission to cash.
C3_SellCreditsProceeds ==
    AcceptedSell => cash = RAdd(call.pre.cash, FillProceeds)

\* C4: every active position has average_price >= 0.
C4_AvgPriceNonNegative ==
    \A s \in DOMAIN positions : RLe(Zero, positions[s].avg_price)

\* C5: a sell of q on a long of Q with 0 < q < Q leaves a long of Q - q with
\* the average price it had.
C5_ReduceLongKeepsAvgPrice ==
    (AcceptedSell /\ PreQty > 0 /\ call.trade.quantity < PreQty)
        => /\ Held
           /\ PostQty = PreQty - call.trade.quantity
           /\ AvgIn(positions, call.trade.symbol) = PreAvg

\* C6: an accepted fill appends exactly one ClosedTrade if and only if it
\* takes the symbol's quantity from non-zero to zero (otherwise it leaves
\* the closed-trade log unchanged).
C6_ClosedTradeIffQuantityToZero ==
    Accepted =>
        IF PreQty # 0 /\ PostQty = 0
        THEN AppendedOneClosed
        ELSE closed_trades = call.pre.closed_trades

\* C7: a buy of q at p on a short of S at average a, q < S, changes cash by
\* -(q * p + commission) + (a - p) * q, leaves the short at -S + q and the
\* average price at a.
C7_PartialCoverCreditsPnl ==
    (AcceptedBuy /\ PreQty < 0 /\ call.trade.quantity < -PreQty)
        => /\ cash = RAdd(RSub(call.pre.cash, FillCost),
                          RMul(RSub(PreAvg, RInt(call.trade.price)),
                               RInt(call.trade.quantity)))
           /\ Held
           /\ PostQty = PreQty + call.trade.quantity
           /\ AvgIn(positions, call.trade.symbol) = PreAvg

\* C8: a buy of q at p on a short of S at average a, q > S, changes cash by
\* -(q * p + commission) + (a - p) * S and leaves a long of q - S at average
\* price p (150 bought at 40 against a short of 100 at 50 realizes 1000 and
\* leaves 50 at 40).
C8_CoverAndFlipToLong ==
    (AcceptedBuy /\ PreQty < 0 /\ call.trade.quantity > -PreQty)
        => /\ cash = RAdd(RSub(call.pre.cash, FillCost),
                          RMul(RSub(PreAvg, RInt(call.trade.price)),
                               RInt(-PreQty)))
           /\ Held
           /\ positions[call.trade.symbol] =
                  Position(call.trade.quantity + PreQty, RInt(call.trade.price))

\* C8 witness: the worked example, 150 at 40 against a short of 100 at 50
C8_Witness ==
    /\ AcceptedBuy
    /\ call.trade.quantity = 150 /\ call.trade.price = 40
    /\ call.trade.commission = 0
    /\ PreQty = -100 /\ PreAvg = RInt(50)
    /\ cash = RAdd(RSub(call.pre.cash, RInt(6000)), RInt(1000))
    /\ Held
    /\ positions[call.trade.symbol] = Position(50, RInt(40))

\* C9: every accepted fill that flips the direction of a position appends
\* exactly one ClosedTrade for the closed leg, its PnL taken on the whole old
\* quantity.
C9_FlipRecordsClosedTrade ==
    /\ (AcceptedBuy /\ PreQty < 0 /\ call.trade.quantity > -PreQty)
        => AppendedClosed([symbol |-> call.trade.symbol,
                           pnl |-> RMul(RSub(PreAvg, RInt(call.trade.price)),
                                        RInt(-PreQty)),
                           timestamp |-> call.trade.timestamp])
    /\ (AcceptedSell /\ PreQty > 0 /\ call.trade.quantity > PreQty)
        => AppendedClosed([symbol |-> call.trade.symbol,
                           pnl |-> RMul(RSub(RInt(call.trade.price), PreAvg),
                                        RInt(PreQty)),
                           timestamp |-> call.trade.timestamp])

\* C10: a sell of q at p on a long of Q, q > Q, leaves a short of -(q - Q)
\* whose average price is p.
C10_SellThroughLongOpensShort ==
    (AcceptedSell /\ PreQty > 0 /\ call.trade.quantity > PreQty)
        => /\ Held
           /\ positions[call.trade.symbol] =
                  Position(-(call.trade.quantity - PreQty), RInt(call.trade.price))

\* C10 witness: 150 sold at 50 through a long of 100 bought at 40
C10_Witness ==
    /\ AcceptedSell
    /\ call.trade.quantity = 150 /\ call.trade.price = 50
    /\ PreQty = 100 /\ PreAvg = RInt(40)
    /\ Held
    /\ positions[call.trade.symbol] = Position(-50, RInt(50))

\* C11: a fill in the position's own direction (an accepted buy on a
\* quantity >= 0, a sell on a quantity <= 0) adds the fill quantity to the
\* absolute quantity, sets the average price to the quantity-weighted mean
\* of the old basis and the fill price, and changes cash by exactly
\* -(quantity * price + commission), resp. +(quantity * price - commission).
C11_SameDirectionFill ==
    /\ (AcceptedBuy /\ PreQty >= 0)
        => /\ Held
           /\ PostQty = PreQty + call.trade.quantity
           /\ AvgIn(positions, call.trade.symbol) =
                  RDiv(RAdd(RMul(RInt(PreQty), PreAvg),
                            RInt(call.trade.quantity * call.trade.price)),
                       RInt(PostQty))
           /\ cash = RSub(call.pre.cash, FillCost)
    /\ (AcceptedSell /\ PreQty <= 0)
        => /\ Held
           /\ -PostQty = -PreQty + call.trade.quantity
           /\ AvgIn(positions, call.trade.symbol) =
                  RDiv(RAdd(RMul(RInt(-PreQty), PreAvg),
                            RInt(call.trade.quantity * call.trade.price)),
                       RInt(-PostQty))
           /\ cash = RAdd(call.pre.cash, FillProceeds)

\* C11 witness: 50 bought at 10 on a long of 50 at 40 gives 100 at 25
C11_Witness ==
    /\ AcceptedBuy
    /\ PreQty = 50 /\ PreAvg = RInt(40)
    /\ call.trade.quantity = 50 /\ call.trade.price = 10
    /\ Held
    /\ positions[call.trade.symbol] = Position(100, RInt(25))
    /\ cash = RSub(call.pre.cash, FillCost)

\* C12: every call of execute_trade that returns True appends its fill at
\* the end of the trade log, every call that returns False leaves the log
\* unchanged; the log is the sequence of the accepted fills in the order of
\* acceptance.
C12_TradeLogIsAcceptedFills ==
    /\ trades = accepted
    /\ IsFill => trades = IF call.ret
                          THEN Append(call.pre.trades, call.trade)
                          ELSE call.pre.trades

\* C12 witness: a rejected fill after two accepted ones
C12_Witness ==
    /\ IsFill /\ ~call.ret
    /\ Len(trades) = 2 /\ Len(accepted) = 2
    /\ trades = call.pre.trades

---------------------------------------------------------------------------
(* Properties of the engine and the strategy base class, under SpecEngine. *)

\* the last step was a fill submitted through Strategy.buy or Strategy.sell
\* that reached the ledger: an order of on_bar or the sale of a stop-loss
StopLossSold == hist.event = "stop_loss" /\ hist.sold
StrategyFill == hist.event = "order" \/ StopLossSold

\* run_backtest has just returned its curves
RunCompleted == hist.event = "on_bar" /\ pc.state = "idle" /\ pc.result = "curves"

\* C13: after a run over N bars completes, the equity curve holds exactly N
\* points and the i-th point carries the timestamp of bar i.
C13_OnePointPerBar ==
    RunCompleted =>
        /\ Len(equity_curve) = NumBars
        /\ \A k \in 1..Len(equity_curve) :
               equity_curve[k].timestamp = BarTimestamp(k - 1)

\* C14: whenever run_backtest starts iterating bars, the ledger has the
\* initial cash, no positions and empty trade log, closed-trade log and
\* equity curve.
C14_RunStartsOnFreshLedger ==
    hist.event = "start" => Ledger = InitLedger

\* C15: run_backtest called without data or without a strategy returns None
\* and changes nothing (the ledger and the strategy are as the call found
\* them, the engine stays outside the loop); with both present it starts.
C15_ConfigErrorReturnsNone ==
    /\ hist.event = "config_error"
        => /\ ~data.loaded \/ ~strategy.set
           /\ pc.result = "None" /\ pc.state = "idle"
           /\ Ledger = hist.start
           /\ strategy = hist.before
    /\ hist.event = "start"
        => /\ data.loaded /\ hist.before.set
           /\ strategy.portfolio_manager /\ strategy.data

C15_Witness ==
    /\ hist.event = "config_error"
    /\ strategy.set /\ ~data.loaded
    /\ pc.runs = 1 /\ Len(trades) > 0

C18_StopLossSellsFullQuantity ==
    StopLossSold => strategy.symbol \notin DOMAIN positions

\* C19: check_stop_loss submits a fill only when stop_loss_percentage > 0
\* and the ledger's quantity in the strategy's symbol is > 0, so that a
\* stop-loss never opens or increases a short position.
C19_StopLossOnlyOnLedgerLong ==
    StopLossSold
        => /\ RLt(Zero, strategy.stop_loss_percentage)
           /\ QtyIn(call.pre.positions, strategy.symbol) > 0
           /\ QtyIn(positions, strategy.symbol) >= 0

\* C20: every fill submitted through Strategy.buy or Strategy.sell while
\* the engine processes bar i carries bar i's timestamp, the sale of the
\* stop-loss check included.
C20_FillCarriesBarTimestamp ==
    StrategyFill => call.trade.timestamp = BarTimestamp(hist.bar)

\* C21: a strategy object without check_stop_loss is run to completion: the
\* engine does not call the method it lacks, and run_backtest raises no
\* error.
C21_NoStopLossCapabilityRuns ==
    (strategy.set /\ ~strategy.check_stop_loss)
        => pc.result # "AttributeError"

\* the part of the ledger that only execute_trade writes
Holdings == <<cash, positions, trades, closed_trades>>

\* C23: cash, positions, the trade log and the closed-trade log change only
\* inside execute_trade: a step of update_portfolio, of the engine loop, of
\* check_stop_loss or of on_bar that changes one of them is a call of
\* execute_trade, and the change is the one that call makes.
C23_OnlyExecuteTradeWrites ==
    [][Holdings' # Holdings
          => /\ call'.op = "execute_trade"
             /\ call'.pre = Ledger
             /\ Ledger' = execute_trade(Ledger, call'.trade).ledger]_vars

\* the update of a bar with a position open has left the holdings alone
C23_Witness ==
    /\ hist.event = "update" /\ hist.bar = 1
    /\ Len(trades) = 2 /\ "AAPL" \in DOMAIN positions
    /\ equity_curve[Len(equity_curve)].equity # cash
    /\ <<cash, positions, trades, closed_trades>> =
           <<call.pre.cash, call.pre.positions, call.pre.trades,
             call.pre.closed_trades>>

---------------------------------------------------------------------------
(* Properties of update_portfolio, under SpecValuation.                    *)

\* what one symbol adds to the equity: quantity * price, 0 without a price
C22_Term(symbol) ==
    IF symbol \in DOMAIN positions
    THEN positions[symbol].quantity *
             (IF symbol \in DOMAIN call.prices THEN call.prices[symbol] ELSE 0)
    ELSE 0

\* C22: update_portfolio appends exactly one equity point, with the
\* timestamp it was given and equity = cash + the sum over the positions of
\* quantity * current price; a symbol without a price adds 0 and a short
\* position adds a negative amount.
C22_EquityPoint ==
    call.op = "update_portfolio"
        => /\ Len(equity_curve) = Len(call.pre.equity_curve) + 1
           /\ SubSeq(equity_curve, 1, Len(call.pre.equity_curve))
                  = call.pre.equity_curve
           /\ equity_curve[Len(equity_curve)].equity =
                  RAdd(cash, RInt(C22_Term("AAPL") + C22_Term("MSFT")))
           /\ DOMAIN positions \subseteq {"AAPL", "MSFT"}

\* long 50 AAPL without a price and short 50 MSFT priced at 40
C22_Witness ==
    /\ call.op = "update_portfolio"
    /\ QtyIn(positions, "AAPL") = 50 /\ QtyIn(positions, "MSFT") = -50
    /\ DOMAIN call.prices = {"MSFT"} /\ call.prices["MSFT"] = 40
    /\ cash = RInt(5000)
    /\ equity_curve[1].equity = RInt(3000)

---------------------------------------------------------------------------
(* Properties of runs on separate engines, under SpecTwoRuns.              *)

SameParameters(e1, e2) ==
    /\ e1.plan = e2.plan
    /\ e1.st.stop_loss_percentage = e2.st.stop_loss_percentage

---------------------------------------------------------------------------
(* Properties of the PerformanceCalculator, under SpecReport.              *)

PositiveEquity == \A i \in DOMAIN calc.equity_curve : calc.equity_curve[i] > 0

\* a float that is a number or the +infinity the statistics name
Defined(x) == x.kind \in {"num", "pow", "inf", "tiny", "huge"}

Statistics == {"sharpe_ratio", "sortino_ratio", "max_drawdown",
               "win_loss_ratio", "cagr", "volatility", "value_at_risk"}

\* C26: for an equity curve of one or more points with positive equity,
\* every statistic is a defined number (finite or +infinity), never
\* not-a-number; so are the Sharpe ratio and the volatility of a curve of
\* two points and of a curve of one point.
C26_StatisticsAreDefined ==
    (calc.built /\ PositiveEquity)
        => /\ calc.op \in Statistics \ {"value_at_risk"} => Defined(calc.result)
           /\ calc.op = "generate_performance_report"
                  => /\ Defined(calc.result.sharpe_ratio)
                     /\ Defined(calc.result.sortino_ratio)
                     /\ Defined(calc.result.max_drawdown)
                     /\ Defined(calc.result.win_loss_ratio)
                     /\ Defined(calc.result.cagr)
                     /\ Defined(calc.result.volatility)
                     /\ Defined(calc.result.value_at_risk)

\* C27: a PerformanceCalculator built from an empty equity curve does not
\* raise.
C27_EmptyCurveDoesNotRaise ==
    calc.op = "__init__" => calc.raised = ""

\* C28: max_drawdown of a non-empty equity curve is a number <= 0.
C28_MaxDrawdownNotPositive ==
    (calc.built /\ calc.op = "max_drawdown")
        => /\ calc.result.kind \in {"num", "-inf"}
           /\ calc.result.kind = "num" => RLe(calc.result.val, Zero)

\* the closed trades won and lost, counted one by one
RECURSIVE C29_Count(_, _)
C29_Count(closed, won) ==
    IF closed = <<>> THEN 0
    ELSE (IF (Head(closed).pnl > 0) = won THEN 1 ELSE 0)
         + C29_Count(Tail(closed), won)

C30_ValueAtRiskDoesNotRaise ==
    (calc.built /\ calc.op = "value_at_risk")
        => /\ calc.result.kind = "num"
           /\ RLe(Zero, calc.result.val)

\* the daily returns of the calculator's curve and the negative ones
CurveReturns ==
    [i \in 1..(Len(calc.equity_curve) - 1) |->
        Rat(calc.equity_curve[i + 1] - calc.equity_curve[i],
            calc.equity_curve[i])]
NegativeReturns == SelectSeq(CurveReturns, LAMBDA r : r.n < 0)
AllEqual(rs) == \A i, j \in DOMAIN rs : rs[i] = rs[j]

RECURSIVE SumOfSquares(_)
SumOfSquares(rs) ==
    IF rs = <<>> THEN Zero
    ELSE RAdd(RMul(Head(rs), Head(rs)), SumOfSquares(Tail(rs)))

\* the sample variance (sum of x^2 - (sum of x)^2 / n) / (n - 1)
SampleVariance(rs) ==
    RDiv(RSub(SumOfSquares(rs),
              RDiv(RMul(RSum(rs), RSum(rs)), RInt(Len(rs)))),
         RInt(Len(rs) - 1))

\* C31: sortino_ratio is 0.0 without returns; +infinity with returns of
\* which none is negative; 0.0 with exactly one negative return or with
\* negative returns that are all equal; otherwise
\* (mean(returns) * 252 - risk_free_rate) / (stdev(negative returns) *
\* sqrt(252)).
C31_SortinoCases ==
    (calc.built /\ calc.op = "sortino_ratio")
        => /\ CurveReturns = <<>> => calc.result = Num(Zero)
           /\ (CurveReturns # <<>> /\ NegativeReturns = <<>>)
                  => calc.result = PosInf
           /\ (NegativeReturns # <<>> /\ AllEqual(NegativeReturns))
                  => calc.result = Num(Zero)
           /\ ~AllEqual(NegativeReturns)
                  => /\ calc.result.kind = "num"
                     /\ calc.result.val
                            = RSub(RMul(RDiv(RSum(CurveReturns),
                                             RInt(Len(CurveReturns))),
                                        RInt(252)),
                                   Rat(2, 100))
                     /\ RMul(calc.result.sq,
                             RMul(RInt(252), SampleVariance(NegativeReturns)))
                            = RInt(1)

\* C32: cagr is 0.0 when the first equity is <= 0 or the elapsed whole
\* days are <= 0; with end equity < start equity it is the linear value
\* (end / start - 1) / (days / 365); otherwise it is
\* (end / start) ^ (365 / days) - 1, which for 100000 -> 150000 over
\* 2020-01-01 .. 2022-01-01 (731 days) is 1.5 ^ (365 / 731) - 1.
C32_Cagr ==
    (calc.built /\ calc.op = "cagr")
        => LET first == calc.equity_curve[1]
               last == calc.equity_curve[Len(calc.equity_curve)]
               days == IF calc.elapsed >= 0
                       THEN CHOOSE d \in 0..calc.elapsed :
                                24 * d <= calc.elapsed /\ calc.elapsed < 24 * (d + 1)
                       ELSE -1
           IN  /\ (first <= 0 \/ days <= 0) => calc.result = Num(Zero)
               /\ (first > 0 /\ days > 0 /\ last < first)
                      => /\ calc.result.kind = "num"
                         /\ calc.result.sq = RInt(1)
                         /\ RMul(calc.result.val, Rat(days * first, 365))
                                = RInt(last - first)
               /\ (first > 0 /\ days > 0 /\ last >= first)
                      => /\ calc.result.kind = "pow"
                         /\ calc.result.val = Rat(last, first)
                         /\ calc.result.sq = Rat(365, days)
               /\ (first = 100000 /\ last = 150000 /\ days = 731)
                      => calc.result = PowerMinusOne(Rat(3, 2), Rat(365, 731))

\* the curve of test_cagr has been asked for its cagr
C32_Witness ==
    /\ calc.built /\ calc.op = "cagr"
    /\ calc.equity_curve = TestCurve /\ calc.elapsed = 731 * 24
    /\ calc.result = PowerMinusOne(Rat(3, 2), Rat(365, 731))

---------------------------------------------------------------------------
(* Further properties of the ledger, under Spec.                           *)

\* the price table in which the symbol of the last fill trades at the
\* price of that fill
MarkAtFill == [symbol \in {call.trade.symbol} |-> call.trade.price]

\* C34: an accepted fill with commission 0 at the current price of its
\* symbol leaves cash + sum of quantity * current price unchanged, in every
\* branch (open, increase, reduce, exactly close, cover, flip).
C34_FillAtMarkKeepsEquity ==
    (Accepted /\ call.trade.commission = 0)
        => Equity(cash, positions, MarkAtFill)
               = Equity(call.pre.cash, call.pre.positions, MarkAtFill)

\* C35: cash is never negative, after any sequence of execute_trade calls
\* with price > 0, quantity > 0 and 0 <= commission <= quantity * price.
C35_CashNeverNegative == RLe(Zero, cash)

---------------------------------------------------------------------------
(* Properties of the single-symbol strategies, under SpecSignal.           *)

\* a bar has just ended: on_bar, its last step, has returned
BarEnded == hist.event = "on_bar"

\* C36: at the end of every bar in_position is true exactly when the ledger
\* holds a positive quantity of the strategy's symbol; in particular it is
\* false after a stop-loss exit.
C36_InPositionIsLedgerLong ==
    BarEnded => (strategy.in_position
                    <=> QtyIn(positions, strategy.symbol) > 0)

\* C37: the first equity point of a run, the point its bar 0 appends, equals
\* the ledger's initial cash, for every strategy and every table of at
\* least one bar.  (Under SpecEngine.)
C37_FirstPointIsInitialCash ==
    (hist.event = "update" /\ hist.bar = 0)
        => equity_curve[hist.points + 1].equity = RInt(InitialCash)

---------------------------------------------------------------------------
(* Properties of PairsTradingStrategy, under SpecPairs.                    *)

\* C38: the two fills of a pair entry are recorded on two different
\* symbols: after an entry with z-score > entry_zscore the ledger is short
\* symbol1 and long symbol2, after an entry with z-score < -entry_zscore
\* long symbol1 and short symbol2.
C38_PairEntryOnTwoSymbols ==
    /\ hist.event \in {"enter_short_long", "enter_long_short"}
           => /\ Len(trades) >= 2
              /\ trades[Len(trades) - 1].symbol # trades[Len(trades)].symbol
    /\ hist.event = "enter_short_long"
           => /\ QtyIn(positions, symbol1) < 0
              /\ QtyIn(positions, symbol2) > 0
    /\ hist.event = "enter_long_short"
           => /\ QtyIn(positions, symbol1) > 0
              /\ QtyIn(positions, symbol2) < 0

---------------------------------------------------------------------------
(* The two PortfolioManager implementations, under SpecBoth.               *)

\* C39: on a sequence of buys and of sells that do not exceed the quantity
\* held, the two PortfolioManager implementations return the same result
\* for every fill and have the same cash and the same quantity of every
\* symbol.
C39_LongOnlyAgreement ==
    IsFill => /\ call.ret = root_manager.ret
              /\ cash = root_manager.cash
              /\ \A symbol \in Symbols :
                     HeldIn(positions, symbol)
                         = HeldIn(root_manager.positions, symbol)

=============================================================================
